---- MODULE Spec2Model ----
\* Model of the synchronization engine of AppFlowy-Collab:
\*   - RemoteCollab (collab-plugins/src/cloud_storage/remote_collab.rs):
\*     Message, RngMsgIdCounter, push_update, sync and the storage bridge task;
\*   - the Reliable Sink (CollabSink) that RemoteCollab drives;
\*   - the Awareness engine exercised by collab/tests/edit_test/awareness_test.rs;
\*   - the Change Translator of the database views
\*     (collab-database/src/views/view_observer.rs).
EXTENDS Integers, Sequences, FiniteSets, TLC

VARIABLES
  clock,         \* the wall clock (SystemTime::now(), in ms)
  counter,       \* RngMsgIdCounter.0 : Mutex<MsgId>
  issued,        \* history: the ids returned by next(), in call order
  pending_msgs,  \* CollabSink: the queue of outbound messages
  stream,        \* unbounded_channel<Message> between the Sink and the bridge task
  sent,          \* history: every message handed to the transport, in order
  pushed,        \* history: every update given to push_update, in order
  storage,       \* RemoteCollabStorage: the stored update blobs
  local,         \* the local replica (local_collab)
  mirror,        \* RemoteCollab.collab, the internal mirror replica
  edits,         \* history: the operations of the local edits, in the order made
  last,          \* history: what the last operation was and what it saw
  aw_states,     \* Awareness, per replica: client id -> state blob (Null: no entry)
  aw_meta,       \* Awareness, per replica: client id -> logical clock (0: unknown)
  aw_net,        \* awareness updates that were broadcast and can be applied
  aw_last,       \* history: the last awareness operation and the events it emitted
  v_event,       \* view observer: the event the last handler call was given
  v_out,         \* view observer: what that call sent on change_tx, and its offset
  handle,        \* the fields of RemoteCollab its owner still holds: storage, sink
  runner,        \* the dispatch task (CollabSinkRunner::run): where it stands
  t_pc,          \* per thread inside next(): "idle", or "read" between the two locks
  t_next,        \* per thread inside next(): its local `next`
  bridge,        \* the storage bridge task: where it stands and what it holds
  syncs          \* per thread inside sync(): where it stands and its locals

avars == <<aw_states, aw_meta, aw_net, aw_last>>

vvars == <<v_event, v_out>>

tvars == <<handle, runner, t_pc, t_next, bridge, syncs>>

rvars == <<clock, counter, issued, pending_msgs, stream, sent, pushed, storage,
           local, mirror, edits, last>>

vars == <<clock, counter, issued, pending_msgs, stream, sent, pushed, storage,
          local, mirror, edits, last, aw_states, aw_meta, aw_net, aw_last,
          v_event, v_out, handle, runner, t_pc, t_next, bridge, syncs>>

----------------------------------------------------------------------------
\* Bounds of the model.
MaxClock == 2      \* wall-clock values 1..MaxClock
MaxOps == 2        \* operations a local replica can create: 1..MaxOps
MaxPushes == 3     \* direct calls of push_update in one run
MaxSyncs == 2      \* calls of sync in one run
MaxAttempts == 2   \* SinkConfig: sends of one message (first send + resends)
MaxCalls == 5      \* direct calls of next() on one counter
MaxAwClock == 2    \* highest logical clock of an awareness entry
MaxAwNet == 1      \* awareness updates in transit at one time
MaxHistory == 3    \* update blobs of a remote history given to sync

Ops == 1..MaxOps
\* An operation that only the remote history holds.
RemoteOp == MaxOps + 1
AllOps == Ops \cup {RemoteOp}

----------------------------------------------------------------------------
\* Update blobs (Vec<u8>).  A blob either decodes to an Update, an operation
\* set, or fails to decode; len is its length in bytes.

\* Bytes an operation takes in an encoded update: operation MaxOps is a large
\* one, the others are small.
OpLen(op) == IF op = MaxOps THEN 1100 ELSE 500

RECURSIVE SumOpLen(_)
SumOpLen(ops) ==
  IF ops = {} THEN 0
  ELSE LET o == CHOOSE x \in ops : TRUE IN OpLen(o) + SumOpLen(ops \ {o})

\* Transaction::encode_state_as_update_v1 / Update::encode_v1: the empty update
\* is two bytes long.
EncodeV1(ops) == [valid |-> TRUE, ops |-> ops, len |-> 2 + SumOpLen(ops)]

\* Bytes that are not an encoded update.
Garbage == [valid |-> FALSE, ops |-> {}, len |-> 700]

\* Update::decode_v1
DecodeV1(blob) == IF blob.valid THEN [ok |-> TRUE, ops |-> blob.ops]
                  ELSE [ok |-> FALSE, ops |-> {}]

RECURSIVE UnionOps(_)
UnionOps(blobs) ==
  IF blobs = <<>> THEN {} ELSE Head(blobs).ops \cup UnionOps(Tail(blobs))

\* yrs::merge_updates_v1: fails when one of the inputs does not decode.
merge_updates_v1(blobs) ==
  IF \A i \in 1..Len(blobs) : blobs[i].valid
  THEN [ok |-> TRUE, blob |-> EncodeV1(UnionOps(blobs))]
  ELSE [ok |-> FALSE, blob |-> Garbage]

\* A replica is the set of operations it has integrated; its state vector
\* names the operations it has seen.
state_vector(doc) == doc
encode_state_as_update_v1(doc, sv) == EncodeV1(doc \ sv)
apply_update(doc, ops) == doc \cup ops

----------------------------------------------------------------------------
\* Message

ObjectId == "object"

RECURSIVE SumLen(_)
SumLen(blobs) == IF blobs = <<>> THEN 0 ELSE Head(blobs).len + SumLen(Tail(blobs))

\* merge_payload that keeps only the new fragment
merge_payload_replace(msg, payload) == [msg EXCEPT !.payloads = <<payload>>]

merge_payload(msg, payload) == [msg EXCEPT !.payloads = Append(@, payload)]

payload_len(msg) == SumLen(msg.payloads)

\* into_payload that sends the first fragment only
into_payload_first(msg) ==
  LET r == merge_updates_v1(<<Head(msg.payloads)>>) IN
  [ok |-> r.ok, msg_id |-> msg.msg_id, update |-> r.blob]

into_payload(msg) ==
  LET r == merge_updates_v1(msg.payloads) IN
  [ok |-> r.ok, msg_id |-> msg.msg_id, update |-> r.blob]

\* SinkMessage::can_merge.  The Sink of the specification merges into an
\* undispatched message whenever there is one, so no step of the model
\* consults it.
can_merge(msg) == payload_len(msg) < 1024

\* Equality that compares the target instead of the id
MessageEqByObject(a, b) == a.object_id = b.object_id

\* impl PartialEq for Message
MessageEq(a, b) == a.msg_id = b.msg_id

\* Ordering as -1 (Less), 0 (Equal), 1 (Greater)
IdCmp(a, b) == IF a < b THEN -1 ELSE IF a = b THEN 0 ELSE 1

\* The order of the ids, not reversed
MessageCmpById(a, b) == IdCmp(a.msg_id, b.msg_id)

\* impl Ord for Message: the reverse of the order of the ids
MessageCmp(a, b) == 0 - IdCmp(a.msg_id, b.msg_id)

----------------------------------------------------------------------------
\* RngMsgIdCounter

RANDOM_MASK == 2^12 - 1

\* new(): timestamp << 16 | (random u16 & RANDOM_MASK).  The low 16 bits of
\* the shifted timestamp are zero, so the bitwise or is a sum; the values of
\* the model stay far below 2^64, the width of MsgId.
RngMsgIdCounterNew(timestamp, random) == timestamp * 2^16 + (random % (RANDOM_MASK + 1))

\* next(): the value returned, which is also the value stored
RngNext(value) == value + 1

----------------------------------------------------------------------------
\* The Reliable Sink (CollabSink).  An entry of its queue is a message, its
\* state ("Pending": not yet dispatched, "Processing": dispatched and not yet
\* acked) and the number of times it was sent.

\* BinaryHeap::peek: the greatest entry by the order of the messages
HeadOf(q) == CHOOSE p \in q : \A o \in q : MessageCmp(p.msg, o.msg) >= 0

\* Every entry counts as undispatched
UndispatchedAny(q) == q

Undispatched(q) == {p \in q : p.state = "Pending"}
InFlight(q) == {p \in q : p.state = "Processing"}

\* The message push_update builds for a new id
NewMessage(msg_id, update) ==
  [object_id |-> ObjectId, msg_id |-> msg_id, payloads |-> <<update>>]

\* queue_or_merge_msg: merge into the undispatched message when there is
\* one, else take a new id and queue the message built for it.
queue_or_merge_msg(q, ctr, update) ==
  LET und == Undispatched(q) IN
  IF und # {}
  THEN LET h == HeadOf(und) IN
       [pending |-> (q \ {h}) \cup {[h EXCEPT !.msg = merge_payload(h.msg, update)]},
        counter |-> ctr, took |-> <<>>]
  ELSE LET id == RngNext(ctr) IN
       [pending |-> q \cup {[msg |-> NewMessage(id, update), state |-> "Pending",
                             attempts |-> 0]},
        counter |-> id, took |-> <<id>>]

\* RemoteCollab::push_update
push_update(q, ctr, update) == queue_or_merge_msg(q, ctr, update)

\* ack_msg: remove the in-flight message that equals a message with that id
ack_msg(q, msg_id) ==
  {p \in q : ~(p.state = "Processing" /\ MessageEq(p.msg, NewMessage(msg_id, Garbage)))}

NoLast == [op |-> "init", id |-> 0, ok |-> FALSE, fetched |-> <<>>,
           update |-> EncodeV1({}), alone |-> TRUE]

----------------------------------------------------------------------------
\* The Awareness engine.  Two replicas, each the owner of the client id that
\* equals its number.

Replicas == {1, 2}
Null == "null"
AwStates == {"s1", "s2"}

AwInitial == [c \in Replicas |-> Null]
AwNoClock == [c \in Replicas |-> 0]
NoEvents == <<>>

\* local_state(): the state stored for the replica's own client id
local_state(r) == aw_states[r][r]

\* clients(): the client ids that have a state, with the state
clients(r) == {c \in Replicas : aw_states[r][c] # Null}

\* The update for a set of client ids: clock and state of each, "null" for an
\* entry that was removed.
update_with_clients(r, cs) ==
  {[client |-> c, clock |-> aw_meta[r][c], json |-> aw_states[r][c]] : c \in cs}

\* update(): the update for every client that has a state
full_update(r) == update_with_clients(r, clients(r))

\* Newer than every stored clock: one order across the clients
NewerEntriesGlobal(r, u) == {e \in u : \A c \in Replicas : e.clock > aw_meta[r][c]}

\* The entry of an update for a client, if it carries a newer clock than the
\* one stored.
NewerEntries(r, u) == {e \in u : e.clock > aw_meta[r][e.client]}

\* apply_update: last write wins per client, by that client's clock
\* apply_update that only overwrites entries the replica already has
applied_states_known_only(r, u) ==
  [c \in Replicas |->
     IF aw_states[r][c] # Null /\ \E e \in NewerEntries(r, u) : e.client = c
     THEN (CHOOSE e \in NewerEntries(r, u) : e.client = c).json
     ELSE aw_states[r][c]]

\* apply_update that keeps the state of an entry that arrives removed
applied_states_keep_removed(r, u) ==
  [c \in Replicas |->
     IF \E e \in NewerEntries(r, u) : e.client = c /\ e.json # Null
     THEN (CHOOSE e \in NewerEntries(r, u) : e.client = c).json
     ELSE aw_states[r][c]]

applied_states(r, u) ==
  [c \in Replicas |->
     IF \E e \in NewerEntries(r, u) : e.client = c
     THEN (CHOOSE e \in NewerEntries(r, u) : e.client = c).json
     ELSE aw_states[r][c]]

applied_meta(r, u) ==
  [c \in Replicas |->
     IF \E e \in NewerEntries(r, u) : e.client = c
     THEN (CHOOSE e \in NewerEntries(r, u) : e.client = c).clock
     ELSE aw_meta[r][c]]

applied_event(r, u) ==
  [updated |-> {e.client : e \in {x \in NewerEntries(r, u) : x.json # Null}},
   removed |-> {e.client : e \in {x \in NewerEntries(r, u) : x.json = Null}}]

\* An update is broadcast: it is in transit when the network has room for it,
\* and lost otherwise.
Broadcast(net, u) == IF Cardinality(net) < MaxAwNet THEN net \cup {u} ELSE net

\* An event that reports every known client as removed
removed_event_all(r) == [updated |-> {}, removed |-> clients(r) \cup {r}]

\* The event clean_local_state emits
removed_event(r) == [updated |-> {}, removed |-> {r}]

AwInit ==
  /\ aw_states = [r \in Replicas |-> AwInitial]
  /\ aw_meta = [r \in Replicas |-> AwNoClock]
  /\ aw_net = {}
  /\ aw_last = [op |-> "init", rep |-> 0, events |-> NoEvents]

\* set_local_state(blob), also emit_awareness_state()
SetLocalState ==
  /\ \E r \in Replicas, s \in AwStates :
       /\ aw_meta[r][r] < MaxAwClock
       /\ aw_meta' = [aw_meta EXCEPT ![r][r] = @ + 1]
       /\ aw_states' = [aw_states EXCEPT ![r][r] = s]
       /\ aw_net' = Broadcast(aw_net,
            {[client |-> r, clock |-> aw_meta[r][r] + 1, json |-> s]})
       /\ aw_last' = [op |-> "set", rep |-> r,
                      events |-> <<[updated |-> {r}, removed |-> {}]>>]
  /\ UNCHANGED rvars
  /\ UNCHANGED vvars
  /\ UNCHANGED tvars

\* clean_local_state()
CleanLocalState ==
  /\ \E r \in Replicas :
       /\ aw_meta[r][r] < MaxAwClock
       /\ aw_meta' = [aw_meta EXCEPT ![r][r] = @ + 1]
       /\ aw_states' = [aw_states EXCEPT ![r][r] = Null]
       /\ aw_net' = Broadcast(aw_net,
            {[client |-> r, clock |-> aw_meta[r][r] + 1, json |-> Null]})
       /\ aw_last' = [op |-> "clean", rep |-> r, events |-> <<removed_event(r)>>]
  /\ UNCHANGED rvars
  /\ UNCHANGED vvars
  /\ UNCHANGED tvars

\* update(): a replica broadcasts everything it knows
SendUpdate ==
  /\ \E r \in Replicas :
       /\ full_update(r) \notin aw_net
       /\ Cardinality(aw_net) < MaxAwNet
       /\ aw_net' = aw_net \cup {full_update(r)}
  /\ UNCHANGED <<aw_states, aw_meta, aw_last>>
  /\ UNCHANGED rvars
  /\ UNCHANGED vvars
  /\ UNCHANGED tvars

\* apply_update(update)
ApplyUpdate ==
  /\ \E r \in Replicas, u \in aw_net :
       /\ aw_states' = [aw_states EXCEPT ![r] = applied_states(r, u)]
       /\ aw_meta' = [aw_meta EXCEPT ![r] = applied_meta(r, u)]
       /\ aw_last' = [op |-> "apply", rep |-> r,
                      events |-> IF NewerEntries(r, u) = {} THEN NoEvents
                                 ELSE <<applied_event(r, u)>>]
  /\ UNCHANGED aw_net
  /\ UNCHANGED rvars
  /\ UNCHANGED vvars
  /\ UNCHANGED tvars

\* An update in transit is lost.
LoseUpdate ==
  /\ \E u \in aw_net : aw_net' = aw_net \ {u}
  /\ UNCHANGED <<aw_states, aw_meta, aw_last>>
  /\ UNCHANGED rvars
  /\ UNCHANGED vvars
  /\ UNCHANGED tvars

AwNext == SetLocalState \/ CleanLocalState \/ SendUpdate \/ ApplyUpdate \/ LoseUpdate

----------------------------------------------------------------------------
\* The Change Translator (view_observer.rs): handle_array_event and
\* handle_map_event turn one deep event of the view map into the
\* DatabaseViewChange values they send on change_tx.

MaxDelta == 3      \* changes in the delta of one array event
MaxCount == 2      \* the count of one Retain or Removed change
MaxDropPushes == 2
MaxKeys == 2       \* keys changed in one map event

\* crate::views::define
DATABASE_VIEW_ROW_ORDERS == "row_orders"
DATABASE_VIEW_FILTERS == "filters"
DATABASE_VIEW_SORTS == "sorts"
DATABASE_VIEW_GROUPS == "groups"
DATABASE_VIEW_LAYOUT == "layout"

\* PathSegment::Key(s) and PathSegment::Index(i)
Key(s) == [seg |-> "key", key |-> s]
Index(i) == [seg |-> "index", key |-> i]

\* Option<T>: None is the empty sequence, Some(x) the sequence of x
None == <<>>
Some(x) == <<x>>

\* A DatabaseViewChange: its variant, the view id it carries (NoView when the
\* variant has none) and its content (row orders, filters, sorts, groups,
\* indices or the layout).
NoView == "-"
Change(type, view_id, items) == [type |-> type, view_id |-> view_id, items |-> items]

\* The classification by the last key of the path, index segments passed over
ArrayChangeKeyFromLastKey(path) ==
  LET keys == {i \in 1..Len(path) : path[i].seg = "key"} IN
  IF keys = {} THEN "Unhandled"
  ELSE LET segment == path[CHOOSE i \in keys : \A j \in keys : j <= i] IN
       CASE segment.key = DATABASE_VIEW_ROW_ORDERS -> "RowOrder"
         [] segment.key = DATABASE_VIEW_FILTERS -> "Filter"
         [] segment.key = DATABASE_VIEW_SORTS -> "Sort"
         [] segment.key = DATABASE_VIEW_GROUPS -> "Group"
         [] OTHER -> "Unhandled"

\* impl From<&ArrayEvent> for ArrayChangeKey: the last segment of the path
ArrayChangeKeyFrom(path) ==
  IF path = <<>> THEN "Unhandled"
  ELSE LET segment == path[Len(path)] IN
       IF segment.seg = "key"
       THEN CASE segment.key = DATABASE_VIEW_ROW_ORDERS -> "RowOrder"
              [] segment.key = DATABASE_VIEW_FILTERS -> "Filter"
              [] segment.key = DATABASE_VIEW_SORTS -> "Sort"
              [] segment.key = DATABASE_VIEW_GROUPS -> "Group"
              [] OTHER -> "Unhandled"
       ELSE "Unhandled"

view_id_from_array_event(path) ==
  IF Len(path) > 1
  THEN IF path[1].seg = "key" THEN Some(path[1].key) ELSE None
  ELSE None

\* A value of an Added change: a shared value that is a row order, a map
\* (a filter, a sort or a group setting), or something else.
row_order_from_value(value) == IF value.shape = "row_order" THEN Some(value.id) ELSE None
AnyMapFromValue(value) == IF value.shape = "map" THEN Some(value.id) ELSE None

\* The decoder of the values of an Added change, per classification
DecodeValue(key, value) ==
  IF key = "RowOrder" THEN row_order_from_value(value) ELSE AnyMapFromValue(value)

\* Iterator::flat_map over Option: the values that decode, in order
RECURSIVE FlatMapDecode(_, _)
FlatMapDecode(key, values) ==
  IF values = <<>> THEN <<>>
  ELSE DecodeValue(key, Head(values)) \o FlatMapDecode(key, Tail(values))

\* Decoding that gives up at the first value that does not decode
DecodeUntilFailure(key, values) ==
  LET bad == {i \in 1..Len(values) : DecodeValue(key, values[i]) = None} IN
  IF bad = {} THEN FlatMapDecode(key, values)
  ELSE FlatMapDecode(key, SubSeq(values, 1, (CHOOSE i \in bad : \A j \in bad : i <= j) - 1))

\* values.iter().flat_map(decode).collect::<Vec<_>>()
DecodeValues(key, values) == FlatMapDecode(key, values)

\* The event of an Added change
CreatedType(key) ==
  CASE key = "RowOrder" -> "DidInsertRowOrders"
    [] key = "Filter" -> "DidCreateFilters"
    [] key = "Sort" -> "DidCreateSorts"
    [] key = "Group" -> "DidCreateGroupSettings"

\* The event of a Removed change of a filter, sort or group array
UpdatedType(key) ==
  CASE key = "Filter" -> "DidUpdateFilter"
    [] key = "Sort" -> "DidUpdateSort"
    [] key = "Group" -> "DidUpdateGroupSetting"

\* Change::Added(values): what is sent
AddedEvents(key, path, values) ==
  CASE key = "RowOrder" ->
         <<Change(CreatedType(key), NoView, DecodeValues(key, values))>>
    [] key \in {"Filter", "Sort", "Group"} ->
         IF view_id_from_array_event(path) # None
         THEN <<Change(CreatedType(key), view_id_from_array_event(path)[1],
                       DecodeValues(key, values))>>
         ELSE <<>>
    [] OTHER -> <<>>

\* The indices offset ..= offset + len - 1, without the guard on len
RECURSIVE RangeInclusive(_, _)
RangeInclusive(from, to) ==
  IF from > to THEN <<>> ELSE <<from>> \o RangeInclusive(from + 1, to)

\* Indices that start one after the offset
RemovedIndicesAfter(offset, len) ==
  IF len > 0 THEN RangeInclusive(offset + 1, offset + len) ELSE <<>>

\* Change::Removed(len) of the row orders: the indices recorded as deleted
RemovedIndices(offset, len) ==
  IF len > 0 THEN RangeInclusive(offset, offset + len - 1) ELSE <<>>

\* The offset advanced by every Removed change, whatever the classification
RemovedOffsetAlways(key, offset, len) == offset + len

\* Change::Removed(len): the offset after it.  Only the row-order branch has
\* offset += len.
RemovedOffset(key, offset, len) == IF key = "RowOrder" THEN offset + len ELSE offset

\* Change::Removed(len): what is sent
RemovedEvents(key, path) ==
  IF key \in {"Filter", "Sort", "Group"} /\ view_id_from_array_event(path) # None
  THEN <<Change(UpdatedType(key), view_id_from_array_event(path)[1], <<>>)>>
  ELSE <<>>

\* The state of one handle_array_event call: the running offset, the
\* deleted_row_index vector and what was sent so far.  The offset is a u32;
\* the counts of the model keep it far below 2^32.
ArrayStart == [offset |-> 0, deleted |-> <<>>, events |-> <<>>]

\* The closure of for_each: one change of the delta
ArrayChange(path, st, change) ==
  LET key == ArrayChangeKeyFrom(path) IN
  CASE change.op = "Added" ->
         [st EXCEPT !.events = @ \o AddedEvents(key, path, change.values)]
    [] change.op = "Removed" ->
         [offset |-> RemovedOffset(key, st.offset, change.len),
          deleted |-> IF key = "RowOrder"
                      THEN st.deleted \o RemovedIndices(st.offset, change.len)
                      ELSE st.deleted,
          events |-> st.events \o RemovedEvents(key, path)]
    [] change.op = "Retain" -> [st EXCEPT !.offset = @ + change.len]

\* The state after the first n changes of the delta
RECURSIVE ArrayChanges(_, _, _)
ArrayChanges(path, delta, n) ==
  IF n = 0 THEN ArrayStart
  ELSE ArrayChange(path, ArrayChanges(path, delta, n - 1), delta[n])

\* The end of the call that sends the deleted indices whether there are any
ArrayFinishAlways(st) ==
  [st EXCEPT !.events = @ \o <<Change("DidDeleteRowAtIndex", NoView, st.deleted)>>]

\* The end of the call: the deleted indices are sent, if there are any
ArrayFinish(st) ==
  IF st.deleted # <<>>
  THEN [st EXCEPT !.events = @ \o <<Change("DidDeleteRowAtIndex", NoView, st.deleted)>>]
  ELSE st

handle_array_event(path, delta) == ArrayFinish(ArrayChanges(path, delta, Len(delta)))

\* The target of a map event and the new value of a changed key.  A target
\* or a value decodes to a view when it holds what a view needs.
view_from_map_ref(target) == IF target.view THEN Some(target.id) ELSE None
view_id_from_map_ref(target) == target.id
view_from_value(value) == IF value.view # NoView THEN Some(value.view) ELSE None

\* DatabaseLayout::from_str
Layouts == {"grid", "board", "calendar"}
DatabaseLayoutFromStr(text) == IF text \in Layouts THEN Some(text) ELSE None

\* Every key counts as the layout key
IsLayoutKeyAny(key) == TRUE

\* match (*key).as_ref() { DATABASE_VIEW_LAYOUT => ..., _ => ... }
IsLayoutKey(key) == key = DATABASE_VIEW_LAYOUT

\* EntryChange::Inserted(value)
InsertedEvents(value) ==
  IF view_from_value(value) # None
  THEN <<Change("DidCreateView", view_from_value(value)[1], <<>>)>>
  ELSE <<>>

\* EntryChange::Updated(_, value)
UpdatedEvents(target, key, value) ==
  (IF view_from_map_ref(target) # None
   THEN <<Change("DidUpdateView", view_from_map_ref(target)[1], <<>>)>>
   ELSE <<>>)
  \o
  (IF IsLayoutKey(key) /\ DatabaseLayoutFromStr(value.text) # None
   THEN <<Change("LayoutSettingChanged", view_id_from_map_ref(target),
                 DatabaseLayoutFromStr(value.text))>>
   ELSE <<>>)

\* EntryChange::Removed(_): the key of the map is the id of the view
RemovedKeyEvents(key) ==
  IF key # "" THEN <<Change("DidDeleteView", key, <<>>)>> ELSE <<>>

\* The body of the loop over the changed keys
MapEntryEvents(target, entry) ==
  CASE entry.change = "Inserted" -> InsertedEvents(entry.value)
    [] entry.change = "Updated" -> UpdatedEvents(target, entry.key, entry.value)
    [] entry.change = "Removed" -> RemovedKeyEvents(entry.key)

\* handle_map_event: keys is the changed keys in the order the map iterates
RECURSIVE handle_map_event(_, _)
handle_map_event(target, keys) ==
  IF keys = <<>> THEN <<>>
  ELSE MapEntryEvents(target, Head(keys)) \o handle_map_event(target, Tail(keys))

\* The events the handlers are given.
ViewIds == {"v1"}

ArrayPaths ==
  { <<Key(v), Key(k)>> : v \in ViewIds,
      k \in {DATABASE_VIEW_ROW_ORDERS, DATABASE_VIEW_FILTERS, DATABASE_VIEW_SORTS,
             DATABASE_VIEW_GROUPS, "field_orders"} }
  \cup { <<>>, <<Key("v1"), Key(DATABASE_VIEW_FILTERS), Index("0")>> }

RowX == [id |-> "X", shape |-> "row_order"]
RowY == [id |-> "Y", shape |-> "row_order"]
MapM == [id |-> "M", shape |-> "map"]
TextT == [id |-> "T", shape |-> "text"]

AddedLists == { <<RowX>>, <<RowY, RowX>>, <<TextT, RowX, MapM>>, <<MapM>> }

Added(values) == [op |-> "Added", len |-> 0, values |-> values]
Removed(len) == [op |-> "Removed", len |-> len, values |-> <<>>]
Retain(len) == [op |-> "Retain", len |-> len, values |-> <<>>]

Changes ==
  {Added(values) : values \in AddedLists}
  \cup {Removed(len) : len \in 0..MaxCount}
  \cup {Retain(len) : len \in 1..MaxCount}

\* The deltas of up to max changes
Deltas(max) == UNION {[1..n -> Changes] : n \in 0..max}

MapTargets == { [id |-> "v1", view |-> TRUE], [id |-> "", view |-> FALSE] }
MapKeys == {DATABASE_VIEW_LAYOUT, "name", ""}
MapValues == { [text |-> "grid", view |-> NoView], [text |-> "plain", view |-> NoView],
               [text |-> "view", view |-> "v2"] }
MapEntries == [key : MapKeys, change : {"Inserted", "Updated", "Removed"}, value : MapValues]

\* The changed keys of one event, up to max of them: every key at most once
MapKeyChanges(max) ==
  {keys \in UNION {[1..n -> MapEntries] : n \in 1..max} :
     \A i, j \in 1..Len(keys) : i # j => keys[i].key # keys[j].key}

NoTarget == [id |-> "", view |-> FALSE]
NoViewEvent == [kind |-> "none", path |-> <<>>, delta |-> <<>>, target |-> NoTarget, keys |-> <<>>]
NoOut == [done |-> FALSE, offset |-> 0, deleted |-> <<>>, events |-> <<>>]

\* The array events with a delta of up to max_delta changes and the map
\* events with up to max_keys changed keys
ViewEvents(max_delta, max_keys) ==
  {[kind |-> "array", path |-> path, delta |-> delta, target |-> NoTarget, keys |-> <<>>] :
     path \in ArrayPaths, delta \in Deltas(max_delta)}
  \cup
  {[kind |-> "map", path |-> <<>>, delta |-> <<>>, target |-> target, keys |-> keys] :
     target \in MapTargets, keys \in MapKeyChanges(max_keys)}

\* No event is observed.
ViewIdle == v_event = NoViewEvent /\ v_out = NoOut

\* The threads that call next() on one counter.
Threads == {1, 2}

\* The bridge task suspended in stream.recv().await, holding nothing.
BridgeIdle == [pc |-> "recv", msg_id |-> 0, update |-> Garbage]

\* A thread outside of sync.  Inside, a call holds the locals of sync while
\* they are in scope: the state vector it read last (local_sv, then
\* remote_state_vector) and `encode_update`.  ok, updates and alone are
\* history fields, kept until the call returns: whether the fetch
\* succeeded, the history it gave (the loop of step 2 consumes `updates`),
\* and whether the call ran alone: no other call was running when it began
\* and no other thread wrote the local replica or the mirror since.
NoCall == [pc |-> "idle", ok |-> FALSE, updates |-> <<>>, sv |-> {},
           encode_update |-> Garbage, alone |-> TRUE]

\* The RemoteCollab with its Arc fields `storage` and `sink` in place.
Held == [storage |-> TRUE, sink |-> TRUE]

\* The owner holds the RemoteCollab, the tasks wait for their first signal,
\* and no thread is inside next() or sync().
TasksIdle ==
  /\ handle = Held
  /\ runner = "wait"
  /\ t_pc = [t \in Threads |-> "idle"]
  /\ t_next = [t \in Threads |-> 0]
  /\ bridge = BridgeIdle
  /\ syncs = [t \in Threads |-> NoCall]

\* Event::Array(array_event) => handle_array_event(&change_tx, txn, array_event)
HandleArrayEvent ==
  /\ v_event.kind = "array" /\ ~v_out.done
  /\ LET st == handle_array_event(v_event.path, v_event.delta) IN
     v_out' = [done |-> TRUE, offset |-> st.offset, deleted |-> st.deleted,
               events |-> st.events]
  /\ UNCHANGED v_event
  /\ UNCHANGED rvars
  /\ UNCHANGED avars
  /\ UNCHANGED tvars

\* Event::Map(event) => handle_map_event(&change_tx, txn, event)
HandleMapEvent ==
  /\ v_event.kind = "map" /\ ~v_out.done
  /\ v_out' = [done |-> TRUE, offset |-> 0, deleted |-> <<>>,
               events |-> handle_map_event(v_event.target, v_event.keys)]
  /\ UNCHANGED v_event
  /\ UNCHANGED rvars
  /\ UNCHANGED avars
  /\ UNCHANGED tvars

----------------------------------------------------------------------------
\* Initial state: RemoteCollab::new on an object whose remote history is one
\* of InitHistories; the local replica is empty.

InitHistories ==
  { <<>>, <<EncodeV1({RemoteOp})>>, <<Garbage, EncodeV1({RemoteOp})>> }

Random16 == {0, 2^16 - 1}

RInit ==
  /\ clock \in 1..MaxClock
  /\ \E random \in Random16 : counter = RngMsgIdCounterNew(clock, random)
  /\ issued = <<>>
  /\ pending_msgs = {}
  /\ stream = <<>>
  /\ sent = <<>>
  /\ pushed = <<>>
  /\ storage \in InitHistories
  /\ local = {}
  /\ mirror = {}
  /\ edits = <<>>
  /\ last = NoLast
  /\ AwInit
  /\ ViewIdle
  /\ TasksIdle

\* The wall clock moves, forwards or backwards, after the counter was
\* constructed.
ClockMoves ==
  /\ \E t \in 1..MaxClock : t # clock /\ clock' = t
  /\ UNCHANGED avars
  /\ UNCHANGED vvars
  /\ UNCHANGED tvars
  /\ UNCHANGED <<counter, issued, pending_msgs, stream, sent, pushed, storage,
                 local, mirror, edits, last>>

\* The calls of sync as a step of thread t leaves them: a call of another
\* thread is no longer alone once t wrote a replica.
Others(t, wrote) ==
  [u \in Threads |->
     IF u # t /\ wrote /\ syncs[u].pc # "idle"
     THEN [syncs[u] EXCEPT !.alone = FALSE] ELSE syncs[u]]

\* A local edit made while disconnected, by a thread that is not inside
\* sync: the replica integrates a new operation and nothing is pushed.
LocalEdit ==
  /\ \E op \in Ops \ local :
       /\ local' = apply_update(local, {op})
       /\ edits' = Append(edits, op)
  /\ last' = [NoLast EXCEPT !.op = "edit"]
  /\ syncs' = Others(0, TRUE)
  /\ UNCHANGED avars
  /\ UNCHANGED vvars
  /\ UNCHANGED <<handle, runner, t_pc, t_next, bridge>>
  /\ UNCHANGED <<clock, counter, issued, pending_msgs, stream, sent, pushed,
                 storage, mirror>>

\* The updates a caller hands to push_update: the encoding of a small
\* operation, the encoding of a large one, or bytes that are no update.
PushInputs == {EncodeV1({1}), EncodeV1({MaxOps}), Garbage}

PushUpdate ==
  /\ Len(pushed) < MaxPushes
  /\ \E update \in PushInputs :
       LET r == push_update(pending_msgs, counter, update) IN
       /\ pending_msgs' = r.pending
       /\ counter' = r.counter
       /\ issued' = issued \o r.took
       /\ pushed' = Append(pushed, update)
       /\ last' = [NoLast EXCEPT !.op = "push", !.update = update]
  /\ UNCHANGED avars
  /\ UNCHANGED vvars
  /\ UNCHANGED tvars
  /\ UNCHANGED <<clock, stream, sent, storage, local, mirror, edits>>

\* CollabSinkRunner: send the head message when it is not yet dispatched.
DispatchHead ==
  /\ pending_msgs # {}
  /\ LET h == HeadOf(pending_msgs) IN
     /\ h.state = "Pending"
     /\ pending_msgs' = (pending_msgs \ {h}) \cup
                          {[h EXCEPT !.state = "Processing", !.attempts = 1]}
     /\ stream' = Append(stream, h.msg)
     /\ sent' = Append(sent, h.msg)
     /\ last' = [NoLast EXCEPT !.op = "dispatch", !.id = h.msg.msg_id]
  /\ UNCHANGED avars
  /\ UNCHANGED vvars
  /\ UNCHANGED <<clock, counter, issued, pushed, storage, local, mirror, edits>>

Dispatch ==
  /\ DispatchHead
  /\ UNCHANGED tvars

\* The ack of the in-flight message did not arrive in time: send it again.
ResendInFlight ==
  /\ \E p \in InFlight(pending_msgs) :
       /\ p.attempts < MaxAttempts
       /\ pending_msgs' = (pending_msgs \ {p}) \cup {[p EXCEPT !.attempts = @ + 1]}
       /\ stream' = Append(stream, p.msg)
       /\ sent' = Append(sent, p.msg)
       /\ last' = [NoLast EXCEPT !.op = "resend", !.id = p.msg.msg_id]
  /\ UNCHANGED avars
  /\ UNCHANGED vvars
  /\ UNCHANGED <<clock, counter, issued, pushed, storage, local, mirror, edits>>

Timeout ==
  /\ ResendInFlight
  /\ UNCHANGED tvars

\* The strong references to the Sink and to the storage.  RemoteCollab owns
\* one of each while it lives; the dispatch task holds the Sink for the
\* length of one process_next_msg; the bridge task holds the storage from
\* its upgrade until it is done with the message (inside send_update and
\* inside ack_msg) and the Sink while it is inside ack_msg.
SinkStrong ==
  (IF handle.sink THEN 1 ELSE 0) + (IF runner = "upgraded" THEN 1 ELSE 0)
    + (IF bridge.pc = "ack" THEN 1 ELSE 0)

StorageStrong ==
  (IF handle.storage THEN 1 ELSE 0) + (IF bridge.pc \in {"send", "ack"} THEN 1 ELSE 0)

\* A liveness check that never fails
upgrade_always(strong_count) == TRUE

\* Weak::upgrade: Some while a strong reference is left
upgrade(strong_count) == strong_count > 0

\* The Sink, if still there, is acked whatever send_update returned
AcksAfterSendAlways(send_ok, sink) == sink

\* match storage.send_update(msg_id, payload).await: Ok(_) acks the message
\* if weak_sink.upgrade() gives the Sink, Err(e) is logged.
AcksAfterSend(send_ok, sink) == send_ok /\ sink

\* The storage bridge task of RemoteCollab::new, up to its first await on
\* the storage: take one message from the channel, upgrade the storage,
\* merge the payload and call send_update.
BridgeRecv ==
  /\ bridge.pc = "recv"
  /\ stream # <<>>
  /\ stream' = Tail(stream)
  /\ LET r == into_payload(Head(stream)) IN
     IF upgrade(StorageStrong)
     THEN IF r.ok
          THEN /\ bridge' = [pc |-> "send", msg_id |-> r.msg_id, update |-> r.update]
               /\ last' = [NoLast EXCEPT !.op = "recv", !.id = r.msg_id]
          ELSE /\ bridge' = bridge
               /\ last' = [NoLast EXCEPT !.op = "payload_failed", !.id = r.msg_id]
     ELSE /\ bridge' = bridge
          /\ last' = [NoLast EXCEPT !.op = "discard", !.id = r.msg_id]
  /\ UNCHANGED avars
  /\ UNCHANGED vvars
  /\ UNCHANGED <<handle, runner, t_pc, t_next, syncs>>
  /\ UNCHANGED <<clock, counter, issued, pending_msgs, sent, pushed, storage,
                 local, mirror, edits>>

\* send_update(..).await completes: the storage has the update or the send
\* failed; after a success the task upgrades the Sink and calls ack_msg.
BridgeSend ==
  /\ bridge.pc = "send"
  /\ \E send_ok \in BOOLEAN :
       /\ storage' = IF send_ok THEN Append(storage, bridge.update) ELSE storage
       /\ IF AcksAfterSend(send_ok, upgrade(SinkStrong))
          THEN /\ bridge' = [bridge EXCEPT !.pc = "ack"]
               /\ last' = [NoLast EXCEPT !.op = "sent", !.id = bridge.msg_id, !.ok = TRUE]
          ELSE /\ bridge' = BridgeIdle
               /\ last' = [NoLast EXCEPT !.op = IF send_ok THEN "ack_skipped"
                                                ELSE "send_failed",
                                         !.id = bridge.msg_id, !.ok = send_ok]
  /\ UNCHANGED avars
  /\ UNCHANGED vvars
  /\ UNCHANGED <<handle, runner, t_pc, t_next, syncs>>
  /\ UNCHANGED <<clock, counter, issued, pending_msgs, stream, sent, pushed,
                 local, mirror, edits>>

\* sink.ack_msg(msg_id).await
BridgeAck ==
  /\ bridge.pc = "ack"
  /\ pending_msgs' = ack_msg(pending_msgs, bridge.msg_id)
  /\ bridge' = BridgeIdle
  /\ last' = [NoLast EXCEPT !.op = "ack", !.id = bridge.msg_id, !.ok = TRUE]
  /\ UNCHANGED avars
  /\ UNCHANGED vvars
  /\ UNCHANGED <<handle, runner, t_pc, t_next, syncs>>
  /\ UNCHANGED <<clock, counter, issued, stream, sent, pushed, storage,
                 local, mirror, edits>>

Bridge == BridgeRecv \/ BridgeSend \/ BridgeAck

\* sync, step 2: apply the blobs that decode, in order
RECURSIVE ApplyHistory(_, _)
ApplyHistory(doc, updates) ==
  IF updates = <<>> THEN doc
  ELSE LET d == DecodeV1(Head(updates)) IN
       ApplyHistory(IF d.ok THEN apply_update(doc, d.ops) ELSE doc, Tail(updates))

\* The history is applied up to the first blob that does not decode
SyncMirrorUntilFailure(updates) ==
  LET bad == {i \in 1..Len(updates) : ~DecodeV1(updates[i]).ok} IN
  IF bad = {} THEN ApplyHistory(mirror, updates)
  ELSE ApplyHistory(mirror, SubSeq(updates, 1, (CHOOSE i \in bad : \A j \in bad : i <= j) - 1))

\* The history does not reach the mirror
SyncMirrorNone(updates) == mirror

\* sync, steps 2 and 3: the mirror and the local replica after the history
SyncMirror(updates) == IF updates # <<>> THEN ApplyHistory(mirror, updates) ELSE mirror

\* Step 3 left out: the local replica is not advanced
SyncLocalSkip(encode_update) == local

\* sync, step 3: if let Ok(update) = Update::decode_v1(&encode_update)
\* { local_collab ... apply_update(update) }
SyncLocal(encode_update) ==
  LET d == DecodeV1(encode_update) IN
  IF d.ok THEN apply_update(local, d.ops) ELSE local

\* A failed fetch that still hands the stored history to sync
FetchedUpdatesAlways(fetch_ok) == storage

\* match self.storage.get_all_updates(..).await: Ok(updates) => updates,
\* Err(e) => vec![]
FetchedUpdates(fetch_ok) == IF fetch_ok THEN storage ELSE <<>>

\* RemoteCollab::sync.  The call suspends in get_all_updates(..).await and
\* then takes the lock of the mirror or of the local replica once per
\* statement, so every thread can run between two of its statements.  The
\* steps below are these statements; CallStep gives what they share, and
\* records in `last` what the call that returns had seen.
InSync == {t \in Threads : syncs[t].pc # "idle"}

CallStep(t, call) ==
  /\ syncs' = [Others(t, local' # local \/ mirror' # mirror) EXCEPT ![t] = call]
  /\ last' = IF syncs[t].pc = "applied"
             THEN [NoLast EXCEPT !.op = "sync", !.id = t, !.ok = syncs[t].ok,
                                 !.fetched = syncs[t].updates,
                                 !.update = syncs[t].encode_update,
                                 !.alone = syncs[t].alone]
             ELSE [NoLast EXCEPT !.op = "sync_step", !.id = t]
  /\ UNCHANGED avars
  /\ UNCHANGED vvars
  /\ UNCHANGED <<handle, runner, t_pc, t_next, bridge>>
  /\ UNCHANGED <<clock, stream, sent, storage, edits>>

\* let updates = match self.storage.get_all_updates(..).await { .. }
SyncFetch(t) ==
  /\ syncs[t].pc = "idle"
  /\ UNCHANGED <<local, mirror, pending_msgs, counter, issued, pushed>>
  /\ Len(pushed) + Cardinality(InSync) < MaxSyncs
  /\ \E fetch_ok \in BOOLEAN :
       CallStep(t, [NoCall EXCEPT !.pc = "fetched", !.ok = fetch_ok,
                          !.alone = (InSync = {}),
                               !.updates = FetchedUpdates(fetch_ok)])

\* if !updates.is_empty() { self.collab ... for update in updates { .. } }
SyncApplyHistory(t) ==
  /\ syncs[t].pc = "fetched"
  /\ UNCHANGED <<local, pending_msgs, counter, issued, pushed>>
  /\ mirror' = SyncMirror(syncs[t].updates)
  /\ CallStep(t, [syncs[t] EXCEPT !.pc = IF syncs[t].updates # <<>> THEN "history"
                                      ELSE "step4"])

\* let local_sv = local_collab.lock().transact().state_vector();
SyncReadLocalSv(t) ==
  /\ syncs[t].pc = "history"
  /\ UNCHANGED <<local, mirror, pending_msgs, counter, issued, pushed>>
  /\ CallStep(t, [syncs[t] EXCEPT !.pc = "local_sv", !.sv = state_vector(local)])

\* let encode_update = self.collab ... encode_state_as_update_v1(&local_sv);
SyncEncodeForLocal(t) ==
  /\ syncs[t].pc = "local_sv"
  /\ UNCHANGED <<local, mirror, pending_msgs, counter, issued, pushed>>
  /\ CallStep(t, [syncs[t] EXCEPT !.pc = "encoded",
                 !.encode_update = encode_state_as_update_v1(mirror, syncs[t].sv)])

\* if let Ok(update) = Update::decode_v1(&encode_update) { local_collab .. }
SyncUpdateLocal(t) ==
  /\ syncs[t].pc = "encoded"
  /\ UNCHANGED <<mirror, pending_msgs, counter, issued, pushed>>
  /\ local' = SyncLocal(syncs[t].encode_update)
  /\ CallStep(t, [syncs[t] EXCEPT !.pc = "step4", !.sv = {},
                                !.encode_update = Garbage])

\* let remote_state_vector = self.collab.lock().transact().state_vector();
SyncReadRemoteSv(t) ==
  /\ syncs[t].pc = "step4"
  /\ UNCHANGED <<local, mirror, pending_msgs, counter, issued, pushed>>
  /\ CallStep(t, [syncs[t] EXCEPT !.pc = "remote_sv", !.sv = state_vector(mirror)])

\* let encode_update = local_collab ... encode_state_as_update_v1(&remote_state_vector);
SyncEncodeForRemote(t) ==
  /\ syncs[t].pc = "remote_sv"
  /\ UNCHANGED <<local, mirror, pending_msgs, counter, issued, pushed>>
  /\ CallStep(t, [syncs[t] EXCEPT !.pc = "delta",
                 !.encode_update = encode_state_as_update_v1(local, syncs[t].sv)])

\* if let Ok(update) = Update::decode_v1(&encode_update) { self.collab ..
\* apply_update(update) .. }: without the Ok the call returns
SyncUpdateRemote(t) ==
  /\ syncs[t].pc = "delta"
  /\ UNCHANGED <<local, pending_msgs, counter, issued, pushed>>
  /\ LET d == DecodeV1(syncs[t].encode_update) IN
     /\ mirror' = IF d.ok THEN apply_update(mirror, d.ops) ELSE mirror
     /\ CallStep(t, IF d.ok THEN [syncs[t] EXCEPT !.pc = "applied"] ELSE NoCall)

\* self.push_update(&encode_update), and the return of sync
SyncPushUpdate(t) ==
  /\ syncs[t].pc = "applied"
  /\ UNCHANGED <<local, mirror>>
  /\ LET r == push_update(pending_msgs, counter, syncs[t].encode_update) IN
     /\ pending_msgs' = r.pending
     /\ counter' = r.counter
     /\ issued' = issued \o r.took
     /\ pushed' = Append(pushed, syncs[t].encode_update)
  /\ CallStep(t, NoCall)

Sync ==
  \E t \in Threads :
     \/ SyncFetch(t)
     \/ SyncApplyHistory(t)
     \/ SyncReadLocalSv(t)
     \/ SyncEncodeForLocal(t)
     \/ SyncUpdateLocal(t)
     \/ SyncReadRemoteSv(t)
     \/ SyncEncodeForRemote(t)
     \/ SyncUpdateRemote(t)
     \/ SyncPushUpdate(t)

\* next() called from the threads that share one counter.  Each of its two
\* statements takes the lock for itself, so a thread is either outside of a
\* call ("idle") or between the two statements ("read"), holding the value
\* it computed in t_next.

\* let next = *self.0.lock() + 1;
NextRead(t) ==
  /\ t_pc[t] = "idle"
  /\ Len(issued) + Cardinality({u \in Threads : t_pc[u] = "read"}) < MaxCalls
  /\ t_next' = [t_next EXCEPT ![t] = RngNext(counter)]
  /\ t_pc' = [t_pc EXCEPT ![t] = "read"]
  /\ last' = [NoLast EXCEPT !.op = "next_read", !.id = clock]
  /\ UNCHANGED avars
  /\ UNCHANGED vvars
  /\ UNCHANGED <<handle, runner, bridge, syncs>>
  /\ UNCHANGED <<clock, counter, issued, pending_msgs, stream, sent, pushed,
                 storage, local, mirror, edits>>

\* *self.0.lock() = next; next
NextWrite(t) ==
  /\ t_pc[t] = "read"
  /\ counter' = t_next[t]
  /\ issued' = Append(issued, t_next[t])
  /\ t_pc' = [t_pc EXCEPT ![t] = "idle"]
  /\ last' = [NoLast EXCEPT !.op = "next", !.id = clock]
  /\ UNCHANGED avars
  /\ UNCHANGED vvars
  /\ UNCHANGED <<handle, runner, t_next, bridge, syncs>>
  /\ UNCHANGED <<clock, pending_msgs, stream, sent, pushed, storage, local, mirror, edits>>

ThreadsNext == \E t \in Threads : NextRead(t) \/ NextWrite(t)

\* RemoteCollab::new at wall-clock time 1.
SyncInit == RInit /\ clock = 1 /\ counter = RngMsgIdCounterNew(1, 0)

\* The Remote Sync Coordinator: local edits made while disconnected, sync,
\* and the delivery of what sync pushed.
RNext == LocalEdit \/ Sync \/ Dispatch \/ Timeout \/ Bridge

Spec == SyncInit /\ [][RNext]_vars

\* The Reliable Sink under push_update: RemoteCollab::new on an object without
\* remote history.
SinkInit == SyncInit /\ storage = <<>>
SinkNext == PushUpdate \/ Dispatch \/ Timeout \/ Bridge

SpecSink == SinkInit /\ [][SinkNext]_vars

\* The id counter alone, under a moving wall clock.
CounterInit == RInit /\ storage = <<>>
CounterStep == ClockMoves \/ ThreadsNext
SpecCounter == CounterInit /\ [][CounterStep]_vars

\* One counter shared by the threads, under a wall clock that stands still.
SpecThreads == SinkInit /\ [][ThreadsNext]_vars

\* The life of the Sink.  RemoteCollab owns the only lasting strong reference
\* to it and to the storage (handle); the dispatch task holds a weak one and,
\* each time it is woken, upgrades it for the length of one
\* process_next_msg.  runner is the position of the task: "wait" (suspended
\* on the notifier), "upgraded" (holding the Sink), "exited".

\* RemoteCollab has no Drop impl: when it is dropped its fields are released
\* one after the other in the order of their declaration, `storage` before
\* `sink`, and the tasks run on in between.

\* The drop begins: `storage` is released (and the storage destroyed, unless
\* the bridge task holds it).
DropStorage ==
  /\ handle.storage
  /\ handle' = [handle EXCEPT !.storage = FALSE]
  /\ last' = [NoLast EXCEPT !.op = "drop_storage"]
  /\ UNCHANGED avars
  /\ UNCHANGED vvars
  /\ UNCHANGED <<runner, t_pc, t_next, bridge, syncs>>
  /\ UNCHANGED <<clock, counter, issued, pending_msgs, stream, sent, pushed,
                 storage, local, mirror, edits>>

\* The drop ends: `sink` is released.
DropSink ==
  /\ ~handle.storage
  /\ handle.sink
  /\ handle' = [handle EXCEPT !.sink = FALSE]
  /\ last' = [NoLast EXCEPT !.op = "drop"]
  /\ UNCHANGED avars
  /\ UNCHANGED vvars
  /\ UNCHANGED <<runner, t_pc, t_next, bridge, syncs>>
  /\ UNCHANGED <<clock, counter, issued, pending_msgs, stream, sent, pushed,
                 storage, local, mirror, edits>>

Drop == DropStorage \/ DropSink

\* CollabSinkRunner::run, woken: if let Some(sink) = weak_sink.upgrade()
\* { process_next_msg } else { break }
RunnerUpgrade ==
  /\ runner = "wait"
  /\ runner' = IF upgrade(SinkStrong) THEN "upgraded" ELSE "exited"
  /\ last' = [NoLast EXCEPT !.op = "upgrade", !.ok = upgrade(SinkStrong)]
  /\ UNCHANGED avars
  /\ UNCHANGED vvars
  /\ UNCHANGED <<handle, t_pc, t_next, bridge, syncs>>
  /\ UNCHANGED <<clock, counter, issued, pending_msgs, stream, sent, pushed,
                 storage, local, mirror, edits>>

\* process_next_msg: at most one send (the head message, or the in-flight
\* one again), then the task drops its reference and suspends.
RunnerProcess ==
  /\ runner = "upgraded"
  /\ runner' = "wait"
  /\ \/ DispatchHead
     \/ ResendInFlight
     \/ /\ IF pending_msgs = {} THEN TRUE
           ELSE HeadOf(pending_msgs).state # "Pending"
        /\ last' = [NoLast EXCEPT !.op = "nothing"]
        /\ UNCHANGED avars
        /\ UNCHANGED vvars
        /\ UNCHANGED <<clock, counter, issued, pending_msgs, stream, sent,
                       pushed, storage, local, mirror, edits>>
  /\ UNCHANGED <<handle, t_pc, t_next, bridge, syncs>>

\* push_update, a method of the RemoteCollab: called before its drop begins
HandlePush ==
  /\ handle = Held
  /\ Len(pushed) < MaxDropPushes
  /\ PushUpdate

DropNext ==
  \/ HandlePush
  \/ Drop
  \/ RunnerUpgrade
  \/ RunnerProcess
  \/ Bridge

\* The tasks are spawned on the runtime and the notifier wakes the dispatch
\* task whenever the Sink changes or goes away, so a step of the task that
\* stays possible is taken.
SpecDrop ==
  /\ SinkInit
  /\ [][DropNext]_vars
  /\ WF_vars(RunnerUpgrade)
  /\ WF_vars(RunnerProcess)
  /\ WF_vars(BridgeAck)

\* The Awareness engine of two replicas.
AwarenessInit == SinkInit /\ storage = <<>>
SpecAwareness == AwarenessInit /\ [][AwNext]_vars

\* sync against a remote history written by other replicas: any sequence of
\* up to MaxHistory blobs, each the encoding of an operation or bytes that
\* do not decode.
HistoryBlobs == {Garbage, EncodeV1({RemoteOp}), EncodeV1({1})}
Histories(max) == UNION {[1..n -> HistoryBlobs] : n \in 0..max}

HistoryInit ==
  /\ clock = 1 /\ counter = RngMsgIdCounterNew(1, 0)
  /\ issued = <<>> /\ pending_msgs = {} /\ stream = <<>> /\ sent = <<>>
  /\ pushed = <<>> /\ local = {} /\ mirror = {}
  /\ edits = <<>> /\ last = NoLast
  /\ storage \in Histories(MaxHistory)
  /\ AwInit
  /\ ViewIdle
  /\ TasksIdle

HistoryNext == LocalEdit \/ Sync

SpecHistory == HistoryInit /\ [][HistoryNext]_vars

\* The Change Translator: one deep event of the view map is observed and
\* handled.
ViewInit ==
  /\ clock = 1 /\ counter = RngMsgIdCounterNew(1, 0)
  /\ issued = <<>> /\ pending_msgs = {} /\ stream = <<>> /\ sent = <<>>
  /\ pushed = <<>> /\ storage = <<>> /\ local = {} /\ mirror = {}
  /\ edits = <<>> /\ last = NoLast
  /\ AwInit
  /\ v_event \in ViewEvents(MaxDelta, MaxKeys)
  /\ v_out = NoOut
  /\ TasksIdle

ViewNext == HandleArrayEvent \/ HandleMapEvent

SpecView == ViewInit /\ [][ViewNext]_vars

----------------------------------------------------------------------------
\* Properties

\* C1: after two push_update calls made before anything was dispatched, the
\* Sink holds exactly one message, its payload is the two updates in call
\* order, and exactly one id was taken from the counter.
C1_TwoPushesOneMessage ==
  (Len(pushed) = 2 /\ sent = <<>>) =>
     /\ Cardinality(pending_msgs) = 1
     /\ \A p \in pending_msgs : p.msg.payloads = pushed /\ p.state = "Pending"
     /\ Len(issued) = 1

C1_Witness ==
  /\ Len(pushed) = 2 /\ sent = <<>>
  /\ pushed[1] # pushed[2]
  /\ last.op = "push"
  /\ Cardinality(pending_msgs) = 1

\* C2: at most one message of the Sink is in flight (dispatched and not yet
\* acked), however many updates are pushed while it is in flight.
C2_OneInFlight == Cardinality(InFlight(pending_msgs)) <= 1

C2_Witness ==
  /\ Cardinality(InFlight(pending_msgs)) = 1
  /\ Undispatched(pending_msgs) # {}
  /\ last.op = "push"

\* C3: the ids handed to the transport never decrease (so distinct ids are
\* first dispatched in strictly increasing order), and the message that is
\* dispatched is the one with the lowest id in the queue.
C3_DispatchInIdOrder ==
  /\ \A i, j \in 1..Len(sent) : i < j => sent[i].msg_id <= sent[j].msg_id
  /\ last.op = "dispatch" => \A p \in pending_msgs : last.id <= p.msg.msg_id

\* a message was dispatched after a message with a lower id, and it is the
\* one in flight now
C3_Witness ==
  /\ last.op = "dispatch"
  /\ \E i \in 1..Len(sent) : sent[i].msg_id < last.id
  /\ \E p \in InFlight(pending_msgs) : p.msg.msg_id = last.id

\* C4: the ids one counter returns strictly increase in call order, whatever
\* the wall clock does after the counter was constructed.
C4_IdsStrictlyIncrease ==
  \A i, j \in 1..Len(issued) : i < j => issued[i] < issued[j]

\* C5: ack(id) removes the in-flight message with that id and nothing else,
\* after which the next pending message is at the head and can be dispatched;
\* an ack with another id leaves the queue as it is.
C5_AckMatchesById ==
  [][last'.op = "ack" =>
       IF \E p \in InFlight(pending_msgs) : p.msg.msg_id = last'.id
       THEN /\ pending_msgs' = {p \in pending_msgs :
                                  ~(p.state = "Processing" /\ p.msg.msg_id = last'.id)}
            /\ InFlight(pending_msgs') = {}
            /\ pending_msgs' # {} => HeadOf(pending_msgs').state = "Pending"
       ELSE pending_msgs' = pending_msgs]_vars

\* an ack arrived for an id that is not the id of the message in flight
C5_Witness ==
  /\ last.op = "ack"
  /\ \E p \in InFlight(pending_msgs) : p.msg.msg_id # last.id
  /\ Undispatched(pending_msgs) = {}

SendsOf(id) == {i \in 1..Len(sent) : sent[i].msg_id = id}

\* C6: a dispatched message does not change: every send of one id carries the
\* same payload, the message in flight is still the message that was sent,
\* and one message is sent at most MaxAttempts times.
C6_DispatchedImmutable ==
  /\ \A i, j \in 1..Len(sent) :
        sent[i].msg_id = sent[j].msg_id => sent[i].payloads = sent[j].payloads
  /\ \A p \in InFlight(pending_msgs) :
        /\ \E i \in 1..Len(sent) : sent[i] = p.msg
        /\ Cardinality(SendsOf(p.msg.msg_id)) = p.attempts
  /\ \A i \in 1..Len(sent) : Cardinality(SendsOf(sent[i].msg_id)) <= MaxAttempts

\* a message was sent again after an update was pushed while it was in
\* flight
C6_Witness ==
  /\ last.op = "resend"
  /\ \E p \in InFlight(pending_msgs) :
        /\ p.attempts = MaxAttempts
        /\ \E o \in Undispatched(pending_msgs) : o.msg.msg_id > p.msg.msg_id

RECURSIVE DecodedOps(_)
DecodedOps(updates) ==
  IF updates = <<>> THEN {}
  ELSE LET d == DecodeV1(Head(updates)) IN
       (IF d.ok THEN d.ops ELSE {}) \cup DecodedOps(Tail(updates))

\* The step with which the call of thread t returns from sync
Returns(t) == syncs[t].pc = "applied" /\ syncs'[t].pc = "idle"

Range(seq) == {seq[i] : i \in 1..Len(seq)}

\* C8: once sync has returned having covered every local edit (no call is
\* running and the mirror holds what the local replica holds) and the Sink
\* has delivered everything (no message is left), the operations in the
\* remote storage, next to those of the remote history, are exactly the
\* local edits, whatever the order of the edits.
C8_RemoteIsMergeOfEdits ==
  (edits # <<>> /\ InSync = {} /\ mirror = local /\ pending_msgs = {}) =>
     DecodedOps(storage) \ {RemoteOp} = Range(edits)

C8_Witness ==
  /\ Len(edits) = 2 /\ edits[1] > edits[2]
  /\ InSync = {} /\ mirror = local /\ pending_msgs = {}
  /\ last.op = "ack"
  /\ DecodedOps(storage) \ {RemoteOp} = Range(edits)

\* The replica knows the latest clock of every client.
UpToDate(r) == \A c \in Replicas : aw_meta[r][c] = aw_meta[c][c]

\* C9: when both replicas have set a local state and each has applied the
\* other's update, the client map of each has exactly two entries, and they
\* are the states the two replicas set, unchanged.
C9_ExchangeYieldsBothStates ==
  ((\A r \in Replicas : local_state(r) # Null /\ UpToDate(r))
     /\ aw_last.op = "apply") =>
    \A r \in Replicas :
       /\ Cardinality(clients(r)) = 2
       /\ \A c \in Replicas : aw_states[r][c] = local_state(c)

C9_Witness ==
  /\ \A r \in Replicas : local_state(r) # Null /\ UpToDate(r)
  /\ aw_last.op = "apply"
  /\ local_state(1) # local_state(2)
  /\ \A r \in Replicas : clients(r) = Replicas

\* C10: clean_local_state emits one event whose removed set is exactly the
\* local client id and leaves no local state; a replica that has no local
\* state gets one only by its own set_local_state.
C10_CleanRemovesLocalState ==
  /\ [](aw_last.op = "clean" =>
          /\ aw_last.events = <<[updated |-> {}, removed |-> {aw_last.rep}]>>
          /\ local_state(aw_last.rep) = Null)
  /\ [][\A r \in Replicas :
          (local_state(r) = Null /\ local_state(r)' # Null) =>
             (aw_last'.op = "set" /\ aw_last'.rep = r)]_vars

\* after its clean, a replica applied an update while the other replica
\* still held the state the replica had cleaned
C10_Witness ==
  \E r \in Replicas :
    /\ aw_last.op = "apply" /\ aw_last.rep = r
    /\ local_state(r) = Null
    /\ aw_meta[r][r] >= 2
    /\ \E p \in Replicas \ {r} : aw_states[p][r] # Null /\ aw_states[r][p] # Null

\* C11: replica b holds a's state and its own; a calls clean_local_state and
\* b applies the update that results (b's clock for a becomes the clock of
\* a's clean).  Then a's entry is gone from b's client map, b's own entry is
\* unchanged, the map has exactly one entry, and the event b emits reports
\* exactly a as removed.
C11_CleanSyncRemovesPeerEntry ==
  [][\A a, b \in Replicas :
       ( /\ a # b
         /\ aw_last'.op = "apply" /\ aw_last'.rep = b
         /\ clients(b) = Replicas
         /\ local_state(a) = Null
         /\ aw_meta[b][a] < aw_meta[a][a]
         /\ aw_meta'[b][a] = aw_meta[a][a] ) =>
       ( /\ aw_states'[b][a] = Null
         /\ aw_states'[b][b] = aw_states[b][b]
         /\ Cardinality(clients(b)') = 1
         /\ aw_last'.events = <<[updated |-> {}, removed |-> {a}]>> )]_vars

C11_Witness ==
  \E a, b \in Replicas :
    /\ a # b
    /\ aw_last.op = "apply" /\ aw_last.rep = b
    /\ aw_last.events = <<[updated |-> {}, removed |-> {a}]>>
    /\ local_state(a) = Null
    /\ aw_meta[b][a] = aw_meta[a][a]
    /\ clients(b) = {b}

\* The entries of an update for one client
EntriesOf(u, c) == {e \in u : e.client = c}

\* C12: apply_update decides every client on its own: the stored entry of a
\* client is replaced by the incoming entry of that client exactly when the
\* incoming clock is greater than the clock stored for that client, and is
\* left as it is otherwise, whatever the clocks of the other clients are;
\* applying the same update a second time changes nothing.  (The steps that
\* apply an update are those that end with aw_last.op = "apply" and leave the
\* updates in transit as they are.)
C12_LastWriteWinsPerClient ==
  [][(aw_last'.op = "apply" /\ aw_net' = aw_net) =>
       \E u \in aw_net, r \in Replicas :
         /\ r = aw_last'.rep
         /\ \A c \in Replicas :
              IF \E e \in EntriesOf(u, c) : e.clock > aw_meta[r][c]
              THEN \E e \in EntriesOf(u, c) :
                     /\ aw_states'[r][c] = e.json
                     /\ aw_meta'[r][c] = e.clock
              ELSE /\ aw_states'[r][c] = aw_states[r][c]
                   /\ aw_meta'[r][c] = aw_meta[r][c]
         /\ applied_states(r, u)' = aw_states'[r]
         /\ applied_meta(r, u)' = aw_meta'[r]]_vars

\* an update was applied of which one entry was older than the stored one
\* and ignored, and another one was newer and taken
C12_Witness ==
  /\ aw_last.op = "apply"
  /\ \E u \in aw_net : \E e1, e2 \in u :
        LET r == aw_last.rep IN
        /\ e1.client # e2.client
        /\ e1.clock < aw_meta[r][e1.client]
        /\ e1.json # aw_states[r][e1.client]
        /\ e2.clock = aw_meta[r][e2.client]
        /\ e2.clock < aw_meta[r][e1.client]
        /\ aw_last.events = <<[updated |-> {e2.client}, removed |-> {}]>>

\* The sum of the counts of the first n changes of a delta whose kind is one
\* of ops.
RECURSIVE SumCounts(_, _, _)
SumCounts(delta, n, ops) ==
  IF n = 0 THEN 0
  ELSE SumCounts(delta, n - 1, ops) + (IF delta[n].op \in ops THEN delta[n].len ELSE 0)

\* The call handled an array event of this classification.
HandledArray(key) ==
  v_out.done /\ v_event.kind = "array" /\ ArrayChangeKeyFrom(v_event.path) = key

\* The events of the call that are of one of the types, in order
EventsOfType(types) ==
  LET Test(e) == e.type \in types IN SelectSeq(v_out.events, Test)

\* The changes of the event's delta of one kind, in order
ChangesOfKind(op) ==
  LET Test(c) == c.op = op IN SelectSeq(v_event.delta, Test)

\* C13: for a row-order delta the offset starts at 0, Retain(n) and
\* Removed(n) advance it by n and Added leaves it; index i is reported deleted
\* exactly when a Removed(n) change found the offset at some o with
\* o <= i < o + n, each index once (so Removed(0) reports nothing); the delta
\* [Retain(1), Removed(1)] reports exactly the index 1.
C13_RowOrderOffsetMath ==
  HandledArray("RowOrder") =>
    LET delta == v_event.delta IN
    /\ v_out.offset = SumCounts(delta, Len(delta), {"Retain", "Removed"})
    /\ Len(v_out.deleted) = SumCounts(delta, Len(delta), {"Removed"})
    /\ {v_out.deleted[i] : i \in 1..Len(v_out.deleted)} =
         UNION { LET o == SumCounts(delta, n - 1, {"Retain", "Removed"}) IN
                 IF delta[n].op = "Removed" THEN o..(o + delta[n].len - 1) ELSE {}
                 : n \in 1..Len(delta) }
    /\ \A i, j \in 1..Len(v_out.deleted) : i < j => v_out.deleted[i] < v_out.deleted[j]
    /\ delta = <<Retain(1), Removed(1)>> =>
         v_out.events = <<Change("DidDeleteRowAtIndex", NoView, <<1>>)>>

\* a Removed(0) at offset 0, then a retain, then a removal of two elements
C13_Witness ==
  /\ HandledArray("RowOrder")
  /\ v_event.delta = <<Removed(0), Retain(1), Removed(2)>>
  /\ v_out.deleted = <<1, 2>>
  /\ v_out.offset = 3

\* The values of an Added change that have the shape the classification
\* decodes, as the ids they decode to
DecodableIds(key, values) ==
  LET Test(v) == v.shape = (IF key = "RowOrder" THEN "row_order" ELSE "map")
      sel == SelectSeq(values, Test)
  IN [i \in 1..Len(sel) |-> sel[i].id]

Recognized == {"RowOrder", "Filter", "Sort", "Group"}
CreatedTypes ==
  {"DidInsertRowOrders", "DidCreateFilters", "DidCreateSorts", "DidCreateGroupSettings"}

\* C15: for an array event of a recognized classification, the creation
\* events sent are, in order, one per Added change of the delta, each of the
\* type of the classification and holding the values of that change that
\* decode, in order (the others are skipped); Added does not move the offset;
\* the row-order delta [Added([X])] sends exactly one row-orders-inserted
\* event with the one entry X and leaves the offset at 0.
C15_AddedEmitsOneCreationEvent ==
  \A key \in Recognized :
    HandledArray(key) =>
      LET added == ChangesOfKind("Added")
          created == EventsOfType(CreatedTypes)
      IN /\ Len(created) = Len(added)
         /\ \A k \in 1..Len(added) :
              /\ created[k].type = CreatedType(key)
              /\ created[k].items = DecodableIds(key, added[k].values)
         /\ v_out.offset = SumCounts(v_event.delta, Len(v_event.delta),
                             IF key = "RowOrder" THEN {"Retain", "Removed"} ELSE {"Retain"})
         /\ (key = "RowOrder" /\ v_event.delta = <<Added(<<RowX>>)>>) =>
              /\ v_out.events = <<Change("DidInsertRowOrders", NoView, <<"X">>)>>
              /\ v_out.offset = 0

\* two Added changes, the first with values that do not decode around one
\* that does
C15_Witness ==
  /\ HandledArray("RowOrder")
  /\ v_event.delta = <<Added(<<TextT, RowX, MapM>>), Retain(1), Added(<<RowY, RowX>>)>>
  /\ v_out.events = << Change("DidInsertRowOrders", NoView, <<"X">>),
                       Change("DidInsertRowOrders", NoView, <<"Y", "X">>) >>
  /\ v_out.offset = 1

\* The call handled a map event.
HandledMap == v_out.done /\ v_event.kind = "map"

\* The changed keys of the event that are some change, in order
KeysChanged(change) ==
  LET Test(e) == e.change = change IN SelectSeq(v_event.keys, Test)

\* The Updated entries on the layout key whose new value parses as a layout
LayoutUpdates ==
  LET Test(e) == /\ e.change = "Updated" /\ e.key = "layout"
                 /\ e.value.text \in {"grid", "board", "calendar"}
  IN SelectSeq(v_event.keys, Test)

\* C14 (as stated): every Updated entry sends a view-updated event; an
\* Updated entry on the layout key whose value parses as a layout also sends
\* a layout-changed event with the parsed layout, and no other entry does.
C14_UpdatedEmitsViewUpdated ==
  HandledMap =>
    /\ Len(EventsOfType({"DidUpdateView"})) = Len(KeysChanged("Updated"))
    /\ LET changed == EventsOfType({"LayoutSettingChanged"}) IN
       /\ Len(changed) = Len(LayoutUpdates)
       /\ \A k \in 1..Len(changed) : changed[k].items = <<LayoutUpdates[k].value.text>>

\* C14 (amended): every Updated entry sends a view-updated event when the
\* target map of the event decodes as a view, and none when it does not; an
\* Updated entry on the layout key whose value parses as a layout also sends,
\* after it, a layout-changed event with the parsed layout, and no other
\* entry sends one.
C14_UpdatedEmitsViewUpdatedIfDecodes ==
  HandledMap =>
    /\ Len(EventsOfType({"DidUpdateView"})) =
         (IF v_event.target.view THEN Len(KeysChanged("Updated")) ELSE 0)
    /\ LET changed == EventsOfType({"LayoutSettingChanged"}) IN
       /\ Len(changed) = Len(LayoutUpdates)
       /\ \A k \in 1..Len(changed) :
            /\ changed[k].items = <<LayoutUpdates[k].value.text>>
            /\ changed[k].view_id = v_event.target.id
    /\ \A i \in 1..Len(v_out.events) :
         (v_out.events[i].type = "LayoutSettingChanged" /\ v_event.target.view) =>
            (i > 1 /\ v_out.events[i - 1].type = "DidUpdateView")

\* an Updated entry on another key, then one on the layout key with "grid"
C14_Witness ==
  /\ HandledMap
  /\ v_event.target.view
  /\ Len(v_event.keys) = 2
  /\ v_event.keys[1].change = "Updated" /\ v_event.keys[1].key = "name"
  /\ v_event.keys[1].value.text = "grid"
  /\ v_event.keys[2].change = "Updated" /\ v_event.keys[2].key = "layout"
  /\ v_out.events = << Change("DidUpdateView", "v1", <<>>),
                       Change("DidUpdateView", "v1", <<>>),
                       Change("LayoutSettingChanged", "v1", <<"grid">>) >>

\* C19: a row-order call sends at most one deleted-indices event; when a
\* Removed change recorded an index, that event is the last one sent (so it
\* follows every row-orders-inserted event of the call) and holds all the
\* indices recorded; when none was recorded, no deleted-indices event is
\* sent.
C19_DeletedIndicesOnceAtEnd ==
  HandledArray("RowOrder") =>
    LET deleted == EventsOfType({"DidDeleteRowAtIndex"})
        n == Len(v_out.events)
    IN IF SumCounts(v_event.delta, Len(v_event.delta), {"Removed"}) > 0
       THEN /\ Len(deleted) = 1
            /\ v_out.events[n].type = "DidDeleteRowAtIndex"
            /\ Len(v_out.events[n].items) =
                 SumCounts(v_event.delta, Len(v_event.delta), {"Removed"})
            /\ n = Len(ChangesOfKind("Added")) + 1
       ELSE /\ deleted = <<>>
            /\ n = Len(ChangesOfKind("Added"))

\* two Removed changes with an Added change after each
C19_Witness ==
  /\ HandledArray("RowOrder")
  /\ v_event.delta = <<Removed(1), Added(<<RowX>>), Removed(2)>>
  /\ v_out.events = << Change("DidInsertRowOrders", NoView, <<"X">>),
                       Change("DidDeleteRowAtIndex", NoView, <<0, 1, 2>>) >>

UpdatedTypes == {"DidUpdateFilter", "DidUpdateSort", "DidUpdateGroupSetting"}

\* C20 (as stated): for a filter, sort or group array every Removed(n) change
\* sends one updated notification with the id of the owning view, and
\* advances the offset by n as for the row orders.
C20_RemovedAdvancesOffset ==
  \A key \in {"Filter", "Sort", "Group"} :
    HandledArray(key) =>
      LET updated == EventsOfType(UpdatedTypes) IN
      /\ Len(updated) = Len(ChangesOfKind("Removed"))
      /\ \A k \in 1..Len(updated) :
           updated[k] = Change(UpdatedType(key), v_event.path[1].key, <<>>)
      /\ v_out.offset = SumCounts(v_event.delta, Len(v_event.delta), {"Retain", "Removed"})

\* C20 (amended): for a filter, sort or group array every Removed(n) change
\* sends one updated notification with the id of the owning view, and leaves
\* the offset as it is: only Retain moves it.
C20_RemovedEmitsUpdatedOnly ==
  \A key \in {"Filter", "Sort", "Group"} :
    HandledArray(key) =>
      LET updated == EventsOfType(UpdatedTypes) IN
      /\ Len(updated) = Len(ChangesOfKind("Removed"))
      /\ \A k \in 1..Len(updated) :
           updated[k] = Change(UpdatedType(key), v_event.path[1].key, <<>>)
      /\ v_out.offset = SumCounts(v_event.delta, Len(v_event.delta), {"Retain"})
      /\ v_out.deleted = <<>>

C20_Witness ==
  /\ HandledArray("Sort")
  /\ v_event.delta = <<Retain(1), Removed(2), Removed(1)>>
  /\ v_out.events = << Change("DidUpdateSort", "v1", <<>>), Change("DidUpdateSort", "v1", <<>>) >>
  /\ v_out.offset = 1

\* The ids of the messages the Sink holds
IdsOf(q) == {p.msg.msg_id : p \in q}

\* The steps of the bridge task on one message.  It takes the message from
\* the channel and, if the storage is still there and the payload merges,
\* calls send_update with the merged payload, else drops the message and
\* touches nothing.  When send_update returns, the Sink holds what it held;
\* the task goes on to ack_msg exactly when `acked` says so, and is back at
\* the channel otherwise.  ack_msg removes the entries with that id and
\* nothing else, and the Sink loses a message by an ack of the bridge only.
BridgeStepsAckWhen(acked) ==
  /\ (bridge.pc = "recv" /\ Len(stream') < Len(stream)) =>
       LET msg == Head(stream)
           mergeable == \A i \in 1..Len(msg.payloads) : msg.payloads[i].valid
       IN /\ stream' = Tail(stream)
          /\ storage' = storage /\ pending_msgs' = pending_msgs
          /\ IF handle.storage /\ mergeable
             THEN bridge' = [pc |-> "send", msg_id |-> msg.msg_id,
                             update |-> EncodeV1(UnionOps(msg.payloads))]
             ELSE bridge' = bridge
                    /\ last'.op = IF handle.storage THEN "payload_failed" ELSE "discard"
  /\ (bridge.pc = "send" /\ bridge' # bridge) =>
       /\ pending_msgs' = pending_msgs /\ stream' = stream
       /\ storage' \in {storage, Append(storage, bridge.update)}
       /\ (bridge'.pc = "ack") = acked
       /\ bridge' = IF acked THEN [bridge EXCEPT !.pc = "ack"] ELSE BridgeIdle
       /\ storage' = storage => (last'.op = "send_failed" /\ last'.id = bridge.msg_id)
  /\ (bridge.pc = "ack" /\ bridge' # bridge) =>
       /\ bridge' = BridgeIdle
       /\ storage' = storage /\ stream' = stream
       /\ bridge.msg_id \notin IdsOf(pending_msgs')
       /\ pending_msgs' \subseteq pending_msgs
       /\ IdsOf(pending_msgs) \ IdsOf(pending_msgs') \subseteq {bridge.msg_id}
  /\ ~(IdsOf(pending_msgs) \subseteq IdsOf(pending_msgs')) => bridge.pc = "ack"

\* C16 as claimed: the bridge calls ack_msg for a message exactly when
\* send_update for it succeeded (the update reached the storage); when the
\* send fails or the payload cannot be merged no ack is issued and the Sink
\* keeps the message as it was; in each case the bridge is back at the
\* channel and handles the next message when there is one.
C16_AckIffSendSucceeded ==
  /\ []((stream # <<>> \/ bridge.pc # "recv") => ENABLED Bridge)
  /\ [][BridgeStepsAckWhen(storage' # storage)]_vars

\* C16: the bridge calls ack_msg for a message exactly when send_update for
\* it succeeded and the Sink is still there (RemoteCollab holds it, or the
\* dispatch task holds it for one process_next_msg): after a successful send
\* with the Sink gone no ack is issued.  When the send fails or the payload
\* cannot be merged no ack is issued and the Sink keeps the message as it
\* was; in each case the bridge is back at the channel and handles the next
\* message when there is one.
C16_AckIffSentAndSinkAlive ==
  /\ []((stream # <<>> \/ bridge.pc # "recv") => ENABLED Bridge)
  /\ [][BridgeStepsAckWhen(/\ storage' # storage
                           /\ (handle.sink \/ runner = "upgraded"))]_vars

\* send_update succeeded after the Sink was dropped: the storage has the
\* update, no ack was issued and the bridge is back at the channel
C16_Witness ==
  /\ last.op = "ack_skipped"
  /\ bridge.pc = "recv"
  /\ ~handle.sink
  /\ storage # <<>>
  /\ DecodeV1(storage[Len(storage)]).ok

\* a send failed while the Sink is there: the message is still in flight in
\* the Sink, and the bridge has its resend to handle next
C16_SendFailedReached ==
  /\ last.op = "send_failed"
  /\ bridge.pc = "recv"
  /\ \E p \in InFlight(pending_msgs) : p.msg.msg_id = last.id
  /\ stream # <<>> /\ Head(stream).msg_id = last.id
  /\ storage = <<>>

\* The operations of the blobs of a history that decode.
ValidOps(updates) ==
  UNION {IF updates[i].valid THEN updates[i].ops ELSE {} : i \in 1..Len(updates)}

\* A step of the call of thread t, and the statements after the fetch
Steps(t) == syncs'[t].pc # syncs[t].pc

Continues(t) ==
  \/ SyncApplyHistory(t) \/ SyncReadLocalSv(t) \/ SyncEncodeForLocal(t)
  \/ SyncUpdateLocal(t) \/ SyncReadRemoteSv(t) \/ SyncEncodeForRemote(t)
  \/ SyncUpdateRemote(t) \/ SyncPushUpdate(t)

\* C17: a blob of the fetched history that does not decode is skipped: step
\* 2 gives the mirror the operations of every blob that decodes, those
\* before it and those after it, and nothing else; the call then goes on
\* (it never stops before it returns): step 3 gives them to the local
\* replica too, and the call returns having pushed its step-4 delta.
C17_UndecodableBlobSkipped ==
  /\ [](\A t \in InSync : ENABLED Continues(t))
  /\ [][\A t \in Threads :
          /\ (syncs[t].pc = "fetched" /\ Steps(t)) =>
                /\ \A i \in 1..Len(syncs[t].updates) :
                      syncs[t].updates[i].valid =>
                         syncs[t].updates[i].ops \subseteq mirror'
                /\ mirror' = mirror \cup ValidOps(syncs[t].updates)
                /\ syncs'[t].pc = IF syncs[t].updates # <<>> THEN "history"
                                  ELSE "step4"
          /\ (syncs[t].pc = "encoded" /\ Steps(t)) =>
                ValidOps(syncs[t].updates) \subseteq local'
          /\ Returns(t) =>
                /\ ValidOps(syncs[t].updates) \subseteq (local' \cap mirror')
                /\ DecodeV1(syncs[t].encode_update).ok
                /\ pushed' = Append(pushed, syncs[t].encode_update)]_vars

\* a call has returned whose history held a blob that does not decode
\* between two that do
C17_Witness ==
  /\ last.op = "sync"
  /\ \E i, j, k \in 1..Len(last.fetched) :
       /\ i < j /\ j < k
       /\ last.fetched[i].valid /\ ~last.fetched[j].valid /\ last.fetched[k].valid
       /\ last.fetched[i].ops # last.fetched[k].ops
  /\ {1, RemoteOp} \subseteq mirror
  /\ DecodeV1(last.update).ops # {}

\* C18: sync writes the local replica in step 3 only, and what it adds there
\* is the delta it computed from the mirror against local's state vector,
\* operations the mirror holds; after it the local replica holds what the
\* fetched history decodes to.  Step 2 writes the mirror only.  A call whose
\* fetched history is empty goes from the fetch to step 4 and writes the
\* local replica nowhere.
C18_LocalWrittenOnlyByDelta ==
  /\ [](\A t \in Threads :
          syncs[t].pc \in {"history", "local_sv", "encoded"} => syncs[t].updates # <<>>)
  /\ [][/\ local' # local =>
             \/ edits' # edits
             \/ \E t \in Threads :
                  /\ syncs[t].pc = "encoded" /\ Steps(t)
                  /\ local' = local \cup DecodeV1(syncs[t].encode_update).ops
                  /\ local' \subseteq (local \cup mirror)
        /\ \A t \in Threads :
             /\ (syncs[t].pc = "fetched" /\ Steps(t)) => local' = local
             /\ (syncs[t].pc = "encoded" /\ Steps(t)) =>
                   ValidOps(syncs[t].updates) \subseteq local'
             /\ (syncs[t].pc = "local_sv" /\ Steps(t)) =>
                   syncs'[t].encode_update = EncodeV1(mirror \ syncs[t].sv)
             /\ (syncs[t].pc = "fetched" /\ Steps(t) /\ syncs[t].updates = <<>>) =>
                   syncs'[t].pc = "step4" /\ mirror' = mirror]_vars

\* the first call of sync, made after a local edit, has returned: its fetch
\* gave no history while the storage held an operation the local replica
\* lacks
C18_Witness ==
  /\ last.op = "sync" /\ last.fetched = <<>>
  /\ Len(pushed) = 1
  /\ RemoteOp \in ValidOps(storage)
  /\ RemoteOp \notin local
  /\ local # {}

\* The last segment of the path is none of the four keys: the path is empty,
\* or ends with an index, or ends with another key.
UnrecognizedPath(path) ==
  \/ path = <<>>
  \/ path[Len(path)].seg = "index"
  \/ path[Len(path)].key \notin {"row_orders", "filters", "sorts", "groups"}

\* C21: a call for an array event whose path does not end with one of the
\* row-order, filter, sort or group keys completes and sends nothing,
\* whatever changes the delta holds; and such paths are the only ones for
\* which a delta with an Added or a Removed change sends nothing.
C21_UnrecognizedKeyDropsDelta ==
  /\ (v_event.kind = "array" /\ UnrecognizedPath(v_event.path)) => ENABLED HandleArrayEvent \/ v_out.done
  /\ (v_out.done /\ v_event.kind = "array") =>
        IF UnrecognizedPath(v_event.path)
        THEN v_out.events = <<>> /\ v_out.deleted = <<>>
        ELSE (\E n \in 1..Len(v_event.delta) :
                \/ v_event.delta[n].op = "Added"
                \/ v_event.delta[n].op = "Removed" /\ v_event.delta[n].len > 0)
             => v_out.events # <<>>

\* a path that ends with an index below the filters key, with an Added, a
\* Removed and a Retain change
C21_Witness ==
  /\ v_out.done /\ v_event.kind = "array"
  /\ v_event.path = <<Key("v1"), Key("filters"), Index("0")>>
  /\ v_event.delta = <<Added(<<MapM>>), Removed(1), Retain(1)>>
  /\ v_out.events = <<>>

\* C24: a call of sync whose get_all_updates failed goes on as a call with
\* an empty history does: it holds no update, goes from the fetch to step
\* 4 without a write, never writes the local replica, gives the mirror the
\* diff of the local replica against the mirror, and returns having pushed
\* exactly that diff through the Sink (queued, not sent), whatever the
\* storage holds.
C24_FetchErrorAsEmptyHistory ==
  /\ [](\A t \in InSync :
          ~syncs[t].ok =>
             /\ syncs[t].updates = <<>>
             /\ syncs[t].pc \in {"fetched", "step4", "remote_sv", "delta", "applied"}
             /\ ENABLED Continues(t))
  /\ [][\A t \in Threads :
          (Steps(t) /\ syncs[t].pc # "idle" /\ ~syncs[t].ok) =>
             /\ local' = local
             /\ syncs[t].pc = "fetched" => syncs'[t].pc = "step4" /\ mirror' = mirror
             /\ syncs[t].pc = "remote_sv" =>
                   syncs'[t].encode_update = EncodeV1(local \ syncs[t].sv)
             /\ syncs[t].pc = "delta" =>
                   mirror' = mirror \cup DecodeV1(syncs[t].encode_update).ops
             /\ Returns(t) =>
                   /\ pushed' = Append(pushed, syncs[t].encode_update)
                   /\ \E p \in Undispatched(pending_msgs') :
                         p.msg.payloads[Len(p.msg.payloads)] = syncs[t].encode_update
                   /\ storage' = storage /\ sent' = sent]_vars

\* a call whose fetch failed has returned, for a storage that holds two blobs
\* that decode, after a local edit: the edit is in the mirror and was pushed,
\* the remote operation reached neither replica
C24_Witness ==
  /\ last.op = "sync" /\ ~last.ok /\ last.alone
  /\ DecodeV1(last.update).ops = {1}
  /\ mirror = {1} /\ local = {1}
  /\ Len(storage) >= 2 /\ {1, RemoteOp} \subseteq ValidOps(storage)

\* C23: whatever the interleaving of the lock acquisitions of the threads
\* calling next() on one counter, no two calls return the same id, and once
\* every call has returned the counter has advanced by the number of calls.
C23_ConcurrentNextUnique ==
  /\ \A i, j \in 1..Len(issued) : i # j => issued[i] # issued[j]
  /\ (\A t \in Threads : t_pc[t] = "idle") =>
        \E random \in Random16 :
           counter = RngMsgIdCounterNew(clock, random) + Len(issued)

\* C22: once the handle that owns the Sink is dropped (RemoteCollab has
\* released its `sink`), the next upgrade of the dispatch task's weak
\* reference fails and the task leaves its loop: the task eventually
\* terminates, and after the failed check it stays terminated and sends
\* nothing.
C22_DropStopsDispatch ==
  /\ ~handle.sink ~> runner = "exited"
  /\ [][(~handle.sink /\ runner = "wait" /\ runner' # runner) => runner' = "exited"]_vars
  /\ [][runner = "exited" => (runner' = "exited" /\ sent' = sent)]_vars

\* C22, as the code has it: once RemoteCollab has released its `sink` the
\* task eventually terminates; a check of the task fails exactly when the
\* `sink` is released and the bridge task is not holding the Sink for an ack
\* (a check made while the drop is under way, or while the bridge is inside
\* ack_msg, succeeds and the task goes through its loop once more); after
\* the failed check the task stays terminated and sends nothing.
C22_DropStopsDispatchOnceReleased ==
  /\ ~handle.sink ~> runner = "exited"
  /\ [][(runner = "wait" /\ runner' # runner) =>
          ((runner' = "exited") = (~handle.sink /\ bridge.pc # "ack"))]_vars
  /\ [][runner = "exited" => (runner' = "exited" /\ sent' = sent)]_vars

\* the task has exited with a message sent before the drop and a message
\* that was never dispatched still in the queue
C22_Witness ==
  /\ ~handle.sink
  /\ runner = "exited"
  /\ sent # <<>>
  /\ Undispatched(pending_msgs) # {}

====
